---- MODULE Spec2Model ----
(***************************************************************************)
(* Model of the Excel-Art image-to-spreadsheet converter: script.py (the   *)
(* plain variant) and scriptV2.py (the variant with the fill cache, the    *)
(* three-way size guard and colour reduction).                             *)
(*                                                                         *)
(* Text (paths, responses, colour keys) is a sequence of one-character     *)
(* strings, so that lower(), strip(), endswith() and the hex formatting    *)
(* are computed character by character, as Python computes them.           *)
(*                                                                         *)
(* Three specifications share the variables:                               *)
(*   Spec      image_to_excel, one action per statement group, the two     *)
(*             loops taken as whole function calls (images up to just      *)
(*             above the 10,000 pixel threshold);                          *)
(*   LoopSpec  get_pixel_colors and create_excel_with_colors, one action   *)
(*             per loop iteration, on every small image;                   *)
(*   CodecSpec rgb_to_hex on channel triples.                              *)
(***************************************************************************)
EXTENDS Integers, Sequences, FiniteSets, TLC

VARIABLES
    variant,            \* which file runs: "script" or "scriptV2"
    pc,                 \* position in image_to_excel / in the loops
    image_path,         \* argument of image_to_excel
    file,               \* what the file system holds at image_path
    image,              \* local `image` (None until load_image returns)
    total_pixels,       \* local `total_pixels`
    choice,             \* local `choice` (V2) / `response` (script.py)
    prompted,           \* number of input() calls made by the size guard
    typed,              \* the text the last input() call returned
    pixel_colors,       \* get_pixel_colors: `pixel_colors`
    row_colors,         \* get_pixel_colors: `row_colors`
    width, height,      \* values returned by get_pixel_colors
    x, y,               \* loop indices of the loop in progress
    visits,             \* coordinates passed to image.getpixel, in order
    workbook,           \* openpyxl workbook: its sheet's cells and dimensions
    fill_cache,         \* create_excel_with_colors (V2): `fill_cache`
    fills_constructed,  \* number of PatternFill(...) constructions
    processed,          \* create_excel_with_colors (V2): `processed`
    rgb_color,          \* mapping loop: `rgb_color`
    hex_color,          \* mapping loop: `hex_color`
    output_path,        \* local `output_path`
    files,              \* output files present on disk
    load_calls,         \* number of load_image calls
    reduce_calls,       \* number of reduce_colors calls
    save_calls,         \* number of workbook.save calls
    result,             \* image_to_excel: "pending", "True", "False", "raised"
    outcome             \* the condition that ended the conversion

vars == <<variant, pc, image_path, file, image, total_pixels, choice, prompted,
          typed, pixel_colors, row_colors, width, height, x, y, visits, workbook,
          fill_cache, fills_constructed, processed, rgb_color, hex_color,
          output_path, files, load_calls, reduce_calls, save_calls, result,
          outcome>>

\* Python's None, for a text, for an image and for a workbook
None == <<"None">>

----------------------------------------------------------------------------
(* Text helpers: Python's str.lower, str.strip, str.endswith,              *)
(* os.path.splitext.                                                       *)

UpperChars == <<"P", "N", "G", "J", "E", "S", "X">>
LowerChars == <<"p", "n", "g", "j", "e", "s", "x">>

LowerChar(c) ==
    IF \E i \in 1..Len(UpperChars) : UpperChars[i] = c
    THEN LowerChars[CHOOSE i \in 1..Len(UpperChars) : UpperChars[i] = c]
    ELSE c

lower(s) == [i \in 1..Len(s) |-> LowerChar(s[i])]

endswith(s, suffix) ==
    /\ Len(suffix) <= Len(s)
    /\ SubSeq(s, Len(s) - Len(suffix) + 1, Len(s)) = suffix

Whitespace == {" "}

RECURSIVE lstrip(_)
lstrip(s) ==
    IF s # <<>> /\ Head(s) \in Whitespace THEN lstrip(Tail(s)) ELSE s

RECURSIVE rstrip(_)
rstrip(s) ==
    IF s # <<>> /\ s[Len(s)] \in Whitespace
    THEN rstrip(SubSeq(s, 1, Len(s) - 1))
    ELSE s

strip(s) == rstrip(lstrip(s))

\* str.rfind: the last index (1-based) of character c in s, 0 when absent
rfind(s, c) ==
    IF \E i \in 1..Len(s) : s[i] = c
    THEN CHOOSE i \in 1..Len(s) :
            s[i] = c /\ \A j \in (i + 1)..Len(s) : s[j] # c
    ELSE 0

\* os.path.splitext(p)[0]: the part before the last dot of the last path
\* component; a component made of leading dots only has no extension
splitext_root(p) ==
    LET sepIndex == rfind(p, "/")
        dotIndex == rfind(p, ".")
    IN  IF /\ dotIndex > sepIndex
           /\ \E k \in (sepIndex + 1)..(dotIndex - 1) : p[k] # "."
        THEN SubSeq(p, 1, dotIndex - 1)
        ELSE p

----------------------------------------------------------------------------
(* Color codec.                                                            *)

HexDigits ==
    <<"0", "1", "2", "3", "4", "5", "6", "7",
      "8", "9", "A", "B", "C", "D", "E", "F">>

\* the digits of n in base 16, uppercase, no padding (format type X)
RECURSIVE ToHexX(_)
ToHexX(n) ==
    IF n < 16
    THEN <<HexDigits[n + 1]>>
    ELSE ToHexX(n \div 16) \o <<HexDigits[(n % 16) + 1]>>

\* format spec 02X: zero-padded on the left to a minimum width of 2
Format02X(n) ==
    LET d == ToHexX(n) IN IF Len(d) < 2 THEN <<"0">> \o d ELSE d

\* a plausible slip: format spec X, without the zero padding
rgb_to_hex_unpadded(rgb) == ToHexX(rgb[1]) \o ToHexX(rgb[2]) \o ToHexX(rgb[3])

rgb_to_hex(rgb) == Format02X(rgb[1]) \o Format02X(rgb[2]) \o Format02X(rgb[3])

\* inverse reading of a colour key, used to state the round trip
HexVal(c) == CHOOSE v \in 0..15 : HexDigits[v + 1] = c
hex_to_rgb(s) ==
    <<16 * HexVal(s[1]) + HexVal(s[2]),
      16 * HexVal(s[3]) + HexVal(s[4]),
      16 * HexVal(s[5]) + HexVal(s[6])>>

----------------------------------------------------------------------------
(* Bounds, program constants and the inputs the model explores.            *)

MaxW == 2                   \* LoopSpec: widest image
MaxH == 2                   \* LoopSpec: tallest image
MaxTile == 2                \* Spec: largest period of a pixel pattern
MaxChannel == 255           \* an 8-bit channel of an RGB image
LargeImagePixels == 10000   \* the size-guard threshold
max_colors == 256           \* reduce_colors' default max_colors

Red   == <<255, 0, 0>>
Green == <<0, 255, 0>>
Blue  == <<0, 0, 255>>
Palette == <<Red, Green, Blue>>

\* An image object (PIL.Image): its size, its mode, whether its pixel data
\* decodes, and the pixel data. The pixel data is periodic: `tile` is a
\* tw x th block of pixels repeated over the image (the whole image when
\* tw = width and th = height).
Img(w, h, mode, intact, tw, th, tile) ==
    [width |-> w, height |-> h, mode |-> mode, intact |-> intact,
     tw |-> tw, th |-> th, tile |-> tile]

NoImage == Img(0, 0, "None", FALSE, 1, 1, <<>>)

Coords(w, h) == (0..(w - 1)) \X (0..(h - 1))

\* image.getpixel((y, x)), the coordinates swapped, then the code's
\* image.getpixel((x, y)), on decoded pixel data
getpixel_transposed(img, px, py) == img.tile[<<py % img.tw, px % img.th>>]

getpixel(img, px, py) == img.tile[<<px % img.tw, py % img.th>>]

\* the pixel pattern of period k: colour ((px + py) mod k) of the palette
PatternTile(k) == [c \in Coords(k, k) |-> Palette[((c[1] + c[2]) % k) + 1]]

\* every image of at most MaxW x MaxH pixels over two colours, and the
\* 2 x 2 image red, green / blue, red
SmallImages ==
    { Img(w, h, "RGB", TRUE, w, h, t) :
        <<w, h, t>> \in UNION { UNION { { <<w, h, t>> :
                                  t \in [Coords(w, h) -> {Red, Green}] } :
                                w \in 1..MaxW } : h \in 1..MaxH } }
    \cup { Img(2, 2, "RGB", TRUE, 2, 2,
               [c \in Coords(2, 2) |->
                   IF c = <<1, 0>> THEN Green
                   ELSE IF c = <<0, 1>> THEN Blue ELSE Red]) }

\* what the file system holds at a path: nothing, or a file that the image
\* library identifies or not, stored in some mode, whose pixel data decodes
\* (intact) or not (truncated or corrupt after a valid header)
NoFile == [exists |-> FALSE, identified |-> FALSE, mode |-> "-",
           intact |-> FALSE, width |-> 0, height |-> 0, period |-> 0]

ImageFile(identified, mode, intact, w, h, k) ==
    [exists |-> TRUE, identified |-> identified, mode |-> mode,
     intact |-> intact, width |-> w, height |-> h, period |-> k]

SmallSizes == { <<1, 1>>, <<2, 3>> }
LargeSizes == { <<100, LargeImagePixels \div 100>>,
                <<LargeImagePixels + 1, 1>> }

Files ==
    { NoFile, ImageFile(FALSE, "-", FALSE, 0, 0, 0) }
    \cup { ImageFile(TRUE, m, i, s[1], s[2], k) :
             <<m, i, s, k>> \in {"RGB", "RGBA"} \X BOOLEAN \X SmallSizes
                                 \X (1..MaxTile) }
    \cup { ImageFile(TRUE, "RGB", TRUE, s[1], s[2], k) :
             <<s, k>> \in LargeSizes \X (1..MaxTile) }
    \cup { ImageFile(TRUE, "RGBA", TRUE, LargeImagePixels + 1, 1, 1),
           ImageFile(TRUE, "RGB", FALSE, LargeImagePixels + 1, 1, 1) }

Paths ==
    { <<"a", ".", "p", "n", "g">>,
      <<"a", ".", "J", "P", "G">>,
      <<"d", "/", "a", ".", "j", "p", "e", "g">>,
      <<".", "p", "n", "g">>,
      <<"p", "h", "o", "t", "o", ".", "g", "i", "f">>,
      <<"a", ".", "p", "n", "g", "x">>,
      <<"a", "p", "n", "g">>,
      <<"a", ".", "p", "n", "g", ".", "x", "l", "s", "x">> }

Responses ==
    { <<"1">>, <<" ", "1", " ">>, <<"2">>, <<"3">>, <<"3", " ">>, <<>>,
      <<"s">>, <<"S">>, <<" ", "s">>, <<"n">> }

Variants == {"script", "scriptV2"}

----------------------------------------------------------------------------
(* The functions of the two scripts, as operators on values.               *)

\* load_image: Image.open identifies the file from its header and reads no
\* pixel data; image.convert('RGB'), called only for another mode, decodes
\* the pixel data. Any exception inside the try gives None.
load_image(f) ==
    IF ~f.identified
    THEN NoImage
    ELSE IF f.mode # "RGB"
         THEN IF f.intact
              THEN Img(f.width, f.height, "RGB", TRUE,
                       f.period, f.period, PatternTile(f.period))
              ELSE NoImage
         ELSE Img(f.width, f.height, "RGB", f.intact,
                  f.period, f.period, PatternTile(f.period))

\* get_pixel_colors: the grid it returns (row y, column x at [y+1][x+1])
get_pixel_colors(img) ==
    [yy \in 1..img.height |->
        [xx \in 1..img.width |-> getpixel(img, xx - 1, yy - 1)]]

\* the order in which get_pixel_colors calls getpixel: y outer, x inner
RowMajor(w, h) == [k \in 1..(w * h) |-> <<(k - 1) % w, (k - 1) \div w>>]

\* the worksheet cell of pixel (x, y): a transposed variant, then the code's
CellRefTransposed(px, py) == [row |-> px + 1, column |-> py + 1]

CellRef(px, py) == [row |-> py + 1, column |-> px + 1]

\* PatternFill(start_color=hex, end_color=hex, fill_type="solid"); id tells
\* the objects apart (the n-th one constructed)
PatternFill(n, hex) ==
    [id |-> n, start_color |-> hex, end_color |-> hex, fill_type |-> "solid"]

\* the fill bound to a cell, with the cache and the construction count after
\* it: without the cache test, then as each script does it
ResolveFillUncached(v, cache, n, hex) ==
    LET f == PatternFill(n + 1, hex)
    IN  [fill |-> f, n |-> n + 1,
         cache |-> IF v = "scriptV2"
                   THEN [k \in DOMAIN cache \cup {hex} |->
                            IF k = hex THEN f ELSE cache[k]]
                   ELSE cache]

ResolveFill(v, cache, n, hex) ==
    IF v = "scriptV2" /\ hex \in DOMAIN cache
    THEN [fill |-> cache[hex], n |-> n, cache |-> cache]
    ELSE LET f == PatternFill(n + 1, hex)
         IN  [fill |-> f, n |-> n + 1,
              cache |-> IF v = "scriptV2"
                        THEN [k \in DOMAIN cache \cup {hex} |->
                                 IF k = hex THEN f ELSE cache[k]]
                        ELSE cache]

EmptyCache == <<>>

NoWorkbook ==
    [title |-> "None", column_width |-> <<>>, row_height |-> <<>>,
     cells |-> <<>>, calcMode |-> "None"]

\* the workbook before the mapping loop: title, column widths, row heights
NewWorkbook(v, w, h) ==
    [title |-> "Imagen_Pixeles",
     column_width |-> [col \in 1..w |-> IF v = "scriptV2" THEN "1.5" ELSE "2"],
     row_height |-> [row \in 1..h |-> IF v = "scriptV2" THEN 12 ELSE 15],
     cells |-> <<>>,
     calcMode |-> "auto"]

\* create_excel_with_colors up to the save, as a whole: the cells, the
\* cache and the number of fills constructed once the mapping loop has run
\* over grid (pixel k of the row-major order is processed k-th). Python's
\* dict keeps the fills in order of first insertion: the fill of a key is
\* the i-th constructed when the key is the i-th distinct one met.
\* (\o <<>> and @@ <<>> tabulate keyAt, first and cache once.)
create_excel_cells(v, grid, w, h) ==
    LET n      == w * h
        keyAt  == [k \in 1..n |->
                      rgb_to_hex(grid[((k - 1) \div w) + 1][((k - 1) % w) + 1])]
                  \o <<>>
        K      == { keyAt[k] : k \in 1..n }
        first  == [key \in K |->
                      CHOOSE k \in 1..n :
                         keyAt[k] = key /\ \A j \in 1..(k - 1) : keyAt[j] # key]
                  @@ EmptyCache
        cache  == [key \in K |->
                      PatternFill(Cardinality({q \in K : first[q] <= first[key]}),
                                  key)]
                  @@ EmptyCache
        refs   == { CellRef(p[1], p[2]) : p \in Coords(w, h) }
        idx(c) == (c.row - 1) * w + c.column
    IN  IF v = "scriptV2"
        THEN [cells |-> [c \in refs |-> cache[keyAt[idx(c)]]],
              cache |-> cache, n |-> Cardinality(K)]
        ELSE [cells |-> [c \in refs |-> PatternFill(idx(c), keyAt[idx(c)])],
              cache |-> EmptyCache, n |-> n]

\* image.quantize(colors=max_colors).convert('RGB'): an image of the same
\* size whose colours are the old ones mapped by some q, at most max_colors
\* of them
QuantizeMaps ==
    { [c \in {Red, Green, Blue} |-> c],
      [c \in {Red, Green, Blue} |-> IF c = Green THEN Red ELSE c] }

quantize(img, colors) ==
    { [img EXCEPT !.tile = [c \in DOMAIN img.tile |-> q[img.tile[c]]]] :
        q \in { m \in QuantizeMaps :
                  Cardinality({ m[img.tile[c]] : c \in DOMAIN img.tile })
                     <= colors } }

\* reduce_colors: the images it may return (load_image leaves mode RGB)
reduce_colors(img) ==
    IF img.mode # "P" THEN quantize(img, max_colors) ELSE {img}

valid_extensions ==
    << <<".", "p", "n", "g">>, <<".", "j", "p", "g">>,
       <<".", "j", "p", "e", "g">>, <<".", "P", "N", "G">>,
       <<".", "J", "P", "G">>, <<".", "J", "P", "E", "G">> >>

\* a containment test in place of endswith, then the code's test
HasValidExtensionContains(path) ==
    \E i \in 1..Len(valid_extensions) :
        \E k \in 0..Len(path) :
            k + Len(valid_extensions[i]) <= Len(path)
            /\ SubSeq(lower(path), k + 1, k + Len(valid_extensions[i]))
                 = valid_extensions[i]

HasValidExtension(path) ==
    \E i \in 1..Len(valid_extensions) :
        endswith(lower(path), valid_extensions[i])

\* a guard that also fires at the threshold, then the code's guard
NeedsGuardInclusive(n) == n >= LargeImagePixels

NeedsGuard(n) == n > LargeImagePixels

\* what the size guard does with the text input() returned:
\* [choice, then] with then one of "reduce", "cancel", "proceed";
\* first a V2 that cancels on anything but 1 or 2, then the code
SizeGuardDecisionStrict(v, text) ==
    IF v = "scriptV2"
    THEN [choice |-> strip(text),
          then |-> IF strip(text) = <<"1">> THEN "reduce"
                   ELSE IF strip(text) = <<"2">> THEN "proceed"
                   ELSE "cancel"]
    ELSE [choice |-> text,
          then |-> IF lower(text) # <<"s">> THEN "cancel" ELSE "proceed"]

SizeGuardDecision(v, text) ==
    IF v = "scriptV2"
    THEN [choice |-> strip(text),
          then |-> IF strip(text) = <<"1">> THEN "reduce"
                   ELSE IF strip(text) = <<"3">> THEN "cancel"
                   ELSE "proceed"]
    ELSE [choice |-> text,
          then |-> IF lower(text) # <<"s">> THEN "cancel" ELSE "proceed"]

\* f"{base_name}.xlsx"
OutputPath(path) == splitext_root(path) \o <<".", "x", "l", "s", "x">>

----------------------------------------------------------------------------
(* image_to_excel, statement group by statement group (specification Spec) *)

envVars   == <<variant, image_path, file>>
loopVars  == <<row_colors, x, y, rgb_color, hex_color>>
gridVars  == <<pixel_colors, width, height, visits>>
bookVars  == <<workbook, fill_cache, fills_constructed, processed,
               output_path>>
guardVars == <<total_pixels, choice, prompted, typed>>
callVars  == <<load_calls, reduce_calls, save_calls>>

Init ==
    /\ variant \in Variants
    /\ image_path \in Paths
    /\ file \in Files
    /\ pc = "check_exists"
    /\ image = NoImage
    /\ total_pixels = 0
    /\ choice = None
    /\ prompted = 0
    /\ typed = None
    /\ pixel_colors = <<>>
    /\ row_colors = <<>>
    /\ width = 0
    /\ height = 0
    /\ x = 0
    /\ y = 0
    /\ visits = <<>>
    /\ workbook = NoWorkbook
    /\ fill_cache = EmptyCache
    /\ fills_constructed = 0
    /\ processed = 0
    /\ rgb_color = <<>>
    /\ hex_color = None
    /\ output_path = None
    /\ files = {}
    /\ load_calls = 0
    /\ reduce_calls = 0
    /\ save_calls = 0
    /\ result = "pending"
    /\ outcome = "none"

\* return False / return True / an exception leaving image_to_excel
Finish(res, out) ==
    /\ pc' = "done"
    /\ result' = res
    /\ outcome' = out

Goto(next) ==
    /\ pc' = next
    /\ UNCHANGED <<result, outcome>>

\* script.py extracts before the size guard, scriptV2.py after it
AfterLoad    == IF variant = "script" THEN "extract" ELSE "size_guard"
AfterExtract == IF variant = "script" THEN "size_guard" ELSE "create"
AfterGuard   == IF variant = "script" THEN "create" ELSE "extract"

\* if not os.path.exists(image_path): return False
CheckExists ==
    /\ pc = "check_exists"
    /\ IF ~file.exists
       THEN Finish("False", "InputNotFound")
       ELSE Goto("check_ext")
    /\ UNCHANGED <<envVars, image, loopVars, gridVars, bookVars, guardVars,
                   callVars, files>>

\* if not any(image_path.lower().endswith(ext) ...): return False
CheckExtension ==
    /\ pc = "check_ext"
    /\ IF ~HasValidExtension(image_path)
       THEN Finish("False", "UnsupportedFormat")
       ELSE Goto("load")
    /\ UNCHANGED <<envVars, image, loopVars, gridVars, bookVars, guardVars,
                   callVars, files>>

\* image = load_image(image_path); if image is None: return False
LoadImage ==
    /\ pc = "load"
    /\ load_calls' = load_calls + 1
    /\ image' = load_image(file)
    /\ IF image' = NoImage
       THEN Finish("False", "DecodeFailure")
       ELSE Goto(AfterLoad)
    /\ UNCHANGED <<envVars, loopVars, gridVars, bookVars, guardVars,
                   reduce_calls, save_calls, files>>

\* total_pixels = ...; if total_pixels > 10000: print the prompt
SizeGuard ==
    /\ pc = "size_guard"
    /\ total_pixels' = IF variant = "script"
                       THEN width * height
                       ELSE image.width * image.height
    /\ IF NeedsGuard(total_pixels')
       THEN Goto("input")
       ELSE Goto(AfterGuard)
    /\ UNCHANGED <<envVars, image, loopVars, gridVars, bookVars, choice,
                   prompted, typed, callVars, files>>

\* input(...) returns the caller's response; the branches on it
Respond ==
    /\ pc = "input"
    /\ \E text \in Responses :
          LET d == SizeGuardDecision(variant, text)
          IN  /\ typed' = text
              /\ choice' = d.choice
              /\ CASE d.then = "cancel"  -> Finish("False", "UserCancellation")
                   [] d.then = "reduce"  -> Goto("reduce")
                   [] d.then = "proceed" -> Goto(AfterGuard)
    /\ prompted' = prompted + 1
    /\ UNCHANGED <<envVars, image, loopVars, gridVars, bookVars, total_pixels,
                   callVars, files>>

\* image = reduce_colors(image); quantize decodes the pixel data, which
\* raises outside any try when the data does not decode
ReduceColors ==
    /\ pc = "reduce"
    /\ reduce_calls' = reduce_calls + 1
    /\ IF ~image.intact
       THEN /\ Finish("raised", "DecodeFailure")
            /\ UNCHANGED image
       ELSE /\ image' \in reduce_colors(image)
            /\ Goto("extract")
    /\ UNCHANGED <<envVars, loopVars, gridVars, bookVars, guardVars,
                   load_calls, save_calls, files>>

\* pixel_colors, width, height = get_pixel_colors(image); the first
\* getpixel decodes the pixel data, which raises outside any try when the
\* data does not decode
GetPixelColors ==
    /\ pc = "extract"
    /\ IF ~image.intact
       THEN /\ Finish("raised", "DecodeFailure")
            /\ UNCHANGED gridVars
       ELSE /\ pixel_colors' = get_pixel_colors(image)
            /\ width' = image.width
            /\ height' = image.height
            /\ visits' = RowMajor(image.width, image.height)
            /\ Goto(AfterExtract)
    /\ UNCHANGED <<envVars, image, loopVars, bookVars, guardVars, callVars,
                   files>>

\* output_path = ...; create_excel_with_colors up to the end of its loop
CreateExcel ==
    /\ pc = "create"
    /\ output_path' = OutputPath(image_path)
    /\ LET r == create_excel_cells(variant, pixel_colors, width, height)
       IN  /\ workbook' = [NewWorkbook(variant, width, height)
                              EXCEPT !.cells = r.cells]
           /\ fill_cache' = r.cache
           /\ fills_constructed' = r.n
    /\ processed' = IF variant = "scriptV2" THEN width * height ELSE processed
    /\ Goto("save")
    /\ UNCHANGED <<envVars, image, loopVars, gridVars, guardVars, callVars,
                   files>>

\* the try around workbook.save: True when it returns, False when it raises
\* (the file may then exist in part); image_to_excel returns the same
SaveWorkbook ==
    /\ pc = "save"
    /\ save_calls' = save_calls + 1
    /\ \E saved \in BOOLEAN, partial \in BOOLEAN :
          IF saved
          THEN /\ partial
               /\ files' = files \cup {output_path}
               /\ Finish("True", "Success")
          ELSE /\ files' = IF partial THEN files \cup {output_path} ELSE files
               /\ Finish("False", "SerializationFailure")
    /\ workbook' = IF variant = "scriptV2"
                   THEN [workbook EXCEPT !.calcMode = "manual"]
                   ELSE workbook
    /\ UNCHANGED <<envVars, image, loopVars, gridVars, fill_cache,
                   fills_constructed, processed, output_path, guardVars,
                   load_calls, reduce_calls>>

Next ==
    \/ CheckExists
    \/ CheckExtension
    \/ LoadImage
    \/ SizeGuard
    \/ Respond
    \/ ReduceColors
    \/ GetPixelColors
    \/ CreateExcel
    \/ SaveWorkbook

Spec == Init /\ [][Next]_vars

----------------------------------------------------------------------------
(* get_pixel_colors and create_excel_with_colors, iteration by iteration   *)
(* (specification LoopSpec): the two functions run in turn on an image     *)
(* below the size-guard threshold.                                         *)

LoopInit ==
    /\ variant \in Variants
    /\ image \in SmallImages
    /\ image_path = <<"a", ".", "p", "n", "g">>
    /\ file = ImageFile(TRUE, "RGB", TRUE, image.width, image.height, 0)
    /\ pc = "gp_start"
    /\ total_pixels = 0
    /\ choice = None
    /\ prompted = 0
    /\ typed = None
    /\ pixel_colors = <<>>
    /\ row_colors = <<>>
    /\ width = 0
    /\ height = 0
    /\ x = 0
    /\ y = 0
    /\ visits = <<>>
    /\ workbook = NoWorkbook
    /\ fill_cache = EmptyCache
    /\ fills_constructed = 0
    /\ processed = 0
    /\ rgb_color = <<>>
    /\ hex_color = None
    /\ output_path = None
    /\ files = {}
    /\ load_calls = 1
    /\ reduce_calls = 0
    /\ save_calls = 0
    /\ result = "pending"
    /\ outcome = "none"

fixedVars == <<envVars, image, guardVars, callVars, files, result, outcome>>

\* width, height = image.size; pixel_colors = []
GpStart ==
    /\ pc = "gp_start"
    /\ width' = image.width
    /\ height' = image.height
    /\ pixel_colors' = <<>>
    /\ y' = 0
    /\ pc' = "gp_row"
    /\ UNCHANGED <<fixedVars, row_colors, x, rgb_color, hex_color, visits,
                   bookVars>>

\* for y in range(height): row_colors = []
GpRowStart ==
    /\ pc = "gp_row"
    /\ y < height
    /\ row_colors' = <<>>
    /\ x' = 0
    /\ pc' = "gp_pixel"
    /\ UNCHANGED <<fixedVars, y, rgb_color, hex_color, gridVars, bookVars>>

\* for x in range(width): row_colors.append(image.getpixel((x, y)))
GpPixel ==
    /\ pc = "gp_pixel"
    /\ x < width
    /\ visits' = Append(visits, <<x, y>>)
    /\ row_colors' = Append(row_colors, getpixel(image, x, y))
    /\ x' = x + 1
    /\ UNCHANGED <<fixedVars, pc, y, rgb_color, hex_color, pixel_colors,
                   width, height, bookVars>>

\* pixel_colors.append(row_colors)
GpRowEnd ==
    /\ pc = "gp_pixel"
    /\ x = width
    /\ pixel_colors' = Append(pixel_colors, row_colors)
    /\ y' = y + 1
    /\ pc' = "gp_row"
    /\ UNCHANGED <<fixedVars, row_colors, x, rgb_color, hex_color, width,
                   height, visits, bookVars>>

\* return pixel_colors, width, height
GpReturn ==
    /\ pc = "gp_row"
    /\ y = height
    /\ pc' = "ce_start"
    /\ UNCHANGED <<fixedVars, loopVars, gridVars, bookVars>>

\* create_excel_with_colors up to its loop: the workbook, the empty cache,
\* the column widths and row heights
CeStart ==
    /\ pc = "ce_start"
    /\ output_path' = OutputPath(image_path)
    /\ workbook' = NewWorkbook(variant, width, height)
    /\ fill_cache' = EmptyCache
    /\ fills_constructed' = 0
    /\ processed' = 0
    /\ y' = 0
    /\ pc' = "ce_row"
    /\ UNCHANGED <<fixedVars, row_colors, x, rgb_color, hex_color, gridVars>>

\* for y in range(height):
CeRowStart ==
    /\ pc = "ce_row"
    /\ y < height
    /\ x' = 0
    /\ pc' = "ce_pixel"
    /\ UNCHANGED <<fixedVars, row_colors, y, rgb_color, hex_color, gridVars,
                   bookVars>>

\* for x in range(width): the fill of pixel (x, y) bound to its cell
CePixel ==
    /\ pc = "ce_pixel"
    /\ x < width
    /\ rgb_color' = pixel_colors[y + 1][x + 1]
    /\ hex_color' = rgb_to_hex(rgb_color')
    /\ LET r  == ResolveFill(variant, fill_cache, fills_constructed,
                             hex_color')
           at == CellRef(x, y)
       IN  /\ fill_cache' = r.cache
           /\ fills_constructed' = r.n
           /\ workbook' =
                 [workbook EXCEPT !.cells =
                     [c \in DOMAIN workbook.cells \cup {at} |->
                         IF c = at THEN r.fill ELSE workbook.cells[c]]]
    /\ processed' = IF variant = "scriptV2" THEN processed + 1 ELSE processed
    /\ x' = x + 1
    /\ UNCHANGED <<fixedVars, pc, row_colors, y, gridVars, output_path>>

\* the end of a row (the progress line every 10 rows prints only)
CeRowEnd ==
    /\ pc = "ce_pixel"
    /\ x = width
    /\ y' = y + 1
    /\ pc' = "ce_row"
    /\ UNCHANGED <<fixedVars, row_colors, x, rgb_color, hex_color, gridVars,
                   bookVars>>

\* the loop is over: on to the save
CeLoopEnd ==
    /\ pc = "ce_row"
    /\ y = height
    /\ pc' = "save"
    /\ UNCHANGED <<fixedVars, loopVars, gridVars, bookVars>>

LoopNext ==
    \/ GpStart
    \/ GpRowStart
    \/ GpPixel
    \/ GpRowEnd
    \/ GpReturn
    \/ CeStart
    \/ CeRowStart
    \/ CePixel
    \/ CeRowEnd
    \/ CeLoopEnd
    \/ SaveWorkbook

LoopSpec == LoopInit /\ [][LoopNext]_vars

\* The loops give what the whole-function operators of Spec give.
LoopsAgreeWithOperators ==
    /\ pc \in {"ce_start", "ce_row", "ce_pixel", "save", "done"} =>
          /\ pixel_colors = get_pixel_colors(image)
          /\ visits = RowMajor(image.width, image.height)
    /\ pc \in {"save", "done"} =>
          LET r == create_excel_cells(variant, pixel_colors, width, height)
          IN  /\ workbook.cells = r.cells
              /\ fill_cache = r.cache
              /\ fills_constructed = r.n

----------------------------------------------------------------------------
(* rgb_to_hex on channel triples (specification CodecSpec): one channel    *)
(* takes every 8-bit value while the other two take the values where the   *)
(* number of hex digits or the digit alphabet changes.                     *)

ChannelSamples == {0, 10, 16, MaxChannel}

Channels == 0..MaxChannel

CodecTriples ==
    (Channels \X ChannelSamples \X ChannelSamples)
    \cup (ChannelSamples \X Channels \X ChannelSamples)
    \cup (ChannelSamples \X ChannelSamples \X Channels)

CodecInit ==
    /\ rgb_color \in CodecTriples
    /\ hex_color = None
    /\ pc = "codec"
    /\ variant = "scriptV2"
    /\ image_path = None
    /\ file = NoFile
    /\ image = NoImage
    /\ total_pixels = 0
    /\ choice = None
    /\ prompted = 0
    /\ typed = None
    /\ pixel_colors = <<>>
    /\ row_colors = <<>>
    /\ width = 0
    /\ height = 0
    /\ x = 0
    /\ y = 0
    /\ visits = <<>>
    /\ workbook = NoWorkbook
    /\ fill_cache = EmptyCache
    /\ fills_constructed = 0
    /\ processed = 0
    /\ output_path = None
    /\ files = {}
    /\ load_calls = 0
    /\ reduce_calls = 0
    /\ save_calls = 0
    /\ result = "pending"
    /\ outcome = "none"

\* hex_color = rgb_to_hex(rgb_color)
EncodeColor ==
    /\ pc = "codec"
    /\ hex_color' = rgb_to_hex(rgb_color)
    /\ pc' = "encoded"
    /\ UNCHANGED <<fixedVars, row_colors, x, y, rgb_color, gridVars,
                   bookVars>>

CodecNext == EncodeColor

CodecSpec == CodecInit /\ [][CodecNext]_vars

----------------------------------------------------------------------------
(* The claims.                                                             *)

\* the pixels the mapping loop has processed so far, as colour keys
KeysProcessed ==
    { rgb_to_hex(pixel_colors[((k - 1) \div width) + 1][((k - 1) % width) + 1]) :
        k \in 1..processed }

\* C1: in scriptV2.py, at every step of the mapping loop and after it, the
\* number of PatternFill objects constructed equals the size of fill_cache
\* and the number of distinct colour keys among the pixels processed so
\* far; every fill ever constructed is still the cache's entry for its key
\* (none removed, none replaced); a solid-colour image ends with 1 fill.
C1_OneFillPerDistinctKey ==
    (variant = "scriptV2" /\ pc \in {"ce_row", "ce_pixel", "save", "done"}) =>
        /\ fills_constructed = Cardinality(DOMAIN fill_cache)
        /\ DOMAIN fill_cache = KeysProcessed
        /\ fills_constructed = Cardinality(KeysProcessed)
        /\ { fill_cache[k].id : k \in DOMAIN fill_cache } = 1..fills_constructed
        /\ \A k \in DOMAIN fill_cache : fill_cache[k].start_color = k
        /\ (/\ pc \in {"save", "done"}
            /\ \A c \in DOMAIN image.tile : image.tile[c] = image.tile[<<0, 0>>])
              => fills_constructed = 1

\* C1 witness: the 2 x 2 image red, green / blue, red mapped by scriptV2.py
\* with 3 fills for its 4 pixels
C1_Witness ==
    /\ variant = "scriptV2"
    /\ pc = "save"
    /\ processed = 4
    /\ fills_constructed = 3
    /\ pixel_colors = << <<Red, Green>>, <<Blue, Red>> >>

\* C2: once the mapping loop is over, exactly the width*height cells of
\* rows 1..height and columns 1..width are bound, and the cell at row y+1,
\* column x+1 holds a solid fill whose colour is rgb_to_hex of
\* pixel_colors[y][x].
C2_CellsMatchPixels ==
    pc \in {"save", "done"} =>
        /\ DOMAIN workbook.cells =
              { [row |-> r, column |-> c] : r \in 1..height, c \in 1..width }
        /\ Cardinality(DOMAIN workbook.cells) = width * height
        /\ \A px \in 0..(width - 1), py \in 0..(height - 1) :
              LET f == workbook.cells[[row |-> py + 1, column |-> px + 1]]
              IN  /\ f.start_color = rgb_to_hex(pixel_colors[py + 1][px + 1])
                  /\ f.end_color = f.start_color
                  /\ f.fill_type = "solid"

\* C2 witness: a 2 x 1 image of two colours has been mapped to 2 cells
C2_Witness ==
    /\ pc = "save"
    /\ width = 2
    /\ height = 1
    /\ pixel_colors = << <<Red, Green>> >>
    /\ Cardinality(DOMAIN workbook.cells) = 2

\* C7: get_pixel_colors calls getpixel in row-major order without repeating
\* a coordinate; when it has returned, every coordinate of the image was
\* read exactly once, the grid has height rows of width entries, entry
\* [y][x] is the pixel at (x, y), and the width and height returned are the
\* image's.
C7_ExtractionVisitsEachOnce ==
    /\ \A k \in 1..Len(visits) :
          visits[k] = <<(k - 1) % image.width, (k - 1) \div image.width>>
    /\ pc \in {"ce_start", "ce_row", "ce_pixel", "save", "done"} =>
          /\ Len(visits) = image.width * image.height
          /\ \A c \in Coords(image.width, image.height) :
                Cardinality({ k \in 1..Len(visits) : visits[k] = c }) = 1
          /\ width = image.width
          /\ height = image.height
          /\ Len(pixel_colors) = image.height
          /\ \A py \in 0..(image.height - 1) :
                /\ Len(pixel_colors[py + 1]) = image.width
                /\ \A px \in 0..(image.width - 1) :
                      pixel_colors[py + 1][px + 1] = image.tile[<<px, py>>]

\* C7 witness: a 1 x 2 image of two colours has been extracted
C7_Witness ==
    /\ pc = "ce_start"
    /\ image.width = 1
    /\ image.height = 2
    /\ visits = << <<0, 0>>, <<0, 1>> >>
    /\ pixel_colors = << <<Red>>, <<Green>> >>

HexDigitSet == { HexDigits[i] : i \in 1..16 }

TwoHexDigits(v) == <<HexDigits[(v \div 16) + 1], HexDigits[(v % 16) + 1]>>

SampleTriples == ChannelSamples \X ChannelSamples \X ChannelSamples

\* C6: for channel values in 0..255 the colour key has exactly 6 characters
\* among 0-9 and A-F, two zero-padded digits per channel in the order red,
\* green, blue; reading it back gives the triple; another triple never has
\* the same key.
C6_CodecRoundTrip ==
    pc = "encoded" =>
        /\ Len(hex_color) = 6
        /\ \A i \in 1..Len(hex_color) : hex_color[i] \in HexDigitSet
        /\ hex_color = TwoHexDigits(rgb_color[1]) \o TwoHexDigits(rgb_color[2])
                          \o TwoHexDigits(rgb_color[3])
        /\ hex_to_rgb(hex_color) = rgb_color
        /\ \A t \in SampleTriples :
              (rgb_to_hex(t) = hex_color) <=> (t = rgb_color)

\* C6 witness: (255, 0, 10) has been encoded as FF000A
C6_Witness ==
    /\ pc = "encoded"
    /\ rgb_color = <<255, 0, 10>>
    /\ hex_color = <<"F", "F", "0", "0", "0", "A">>

AcceptedSuffixes ==
    { <<".", "p", "n", "g">>, <<".", "j", "p", "g">>,
      <<".", "j", "p", "e", "g">> }

\* the path ends, whatever the case of its letters, in .png, .jpg or .jpeg
ExtensionAccepted(path) ==
    \E suffix \in AcceptedSuffixes : endswith(lower(path), suffix)

PhotoGif == <<"p", "h", "o", "t", "o", ".", "g", "i", "f">>

\* C3: while the size guard awaits the caller's response no pixel has been
\* read into the colour grid, and a conversion cancelled there has
\* extracted nothing and written nothing.
C3_GuardBeforeExtraction ==
    /\ pc = "input" => (visits = <<>> /\ pixel_colors = <<>>)
    /\ outcome = "UserCancellation" =>
          /\ visits = <<>>
          /\ pixel_colors = <<>>
          /\ save_calls = 0
          /\ files = {}

\* C4: a conversion that ends in Input Not Found, Unsupported Format,
\* Decode Failure or User Cancellation never called workbook.save, left no
\* output file and returned False; the save is called only when the path
\* exists, its extension is accepted, the image was decoded and the size
\* guard was not declined.
C4_NoSaveOnFailure ==
    /\ (/\ pc = "done"
        /\ outcome \in {"InputNotFound", "UnsupportedFormat", "DecodeFailure",
                        "UserCancellation"})
          => (save_calls = 0 /\ files = {} /\ result = "False")
    /\ save_calls > 0 =>
          /\ file.exists
          /\ ExtensionAccepted(image_path)
          /\ image # NoImage
          /\ image.intact
          /\ outcome # "UserCancellation"

\* C5 as stated: a path whose extension is not accepted never reaches
\* load_image and ends in Unsupported Format, whether or not the file
\* exists.
C5_UnsupportedWhetherOrNotFileExists ==
    ~ExtensionAccepted(image_path) =>
        /\ load_calls = 0
        /\ pc = "done" => (outcome = "UnsupportedFormat" /\ result = "False")

\* C5 amended: for a path that does not end in .png, .jpg or .jpeg (any
\* case), load_image is never called and image_to_excel returns False:
\* with Unsupported Format when the path exists, with Input Not Found when
\* it does not (existence is tested first).
C5_RejectedBeforeDecoding ==
    ~ExtensionAccepted(image_path) =>
        /\ load_calls = 0
        /\ image = NoImage
        /\ pc \in {"check_exists", "check_ext", "done"}
        /\ pc = "done" =>
              /\ result = "False"
              /\ outcome = IF file.exists THEN "UnsupportedFormat"
                                          ELSE "InputNotFound"

\* C5 witness: photo.gif exists and was rejected as Unsupported Format
C5_Witness ==
    /\ image_path = PhotoGif
    /\ file.exists
    /\ pc = "done"
    /\ outcome = "UnsupportedFormat"
    /\ load_calls = 0

\* C8: the size guard prompts exactly when the image has more than 10,000
\* pixels: no prompt ever for 10,000 pixels or fewer, and a workbook is
\* created for a larger image only after the prompt was answered.
C8_GuardAboveThresholdOnly ==
    LET n == image.width * image.height
    IN  /\ (pc = "input" \/ prompted > 0) => n >= 10001
        /\ pc = "input" => workbook = NoWorkbook
        /\ workbook # NoWorkbook => (prompted = 1 <=> n >= 10001)
        /\ prompted <= 1

\* C8 witness: an image of exactly 10,000 pixels was converted and saved
\* without a prompt
C8_Witness ==
    /\ image.width * image.height = 10000
    /\ pc = "done"
    /\ result = "True"
    /\ prompted = 0
    /\ workbook # NoWorkbook

\* C9: image_to_excel always ends by returning True or False; each listed
\* failure returns False; True is returned exactly when workbook.save
\* completed.
C9_FailuresReturnFalse ==
    pc = "done" =>
        /\ result \in {"True", "False"}
        /\ outcome \in {"InputNotFound", "UnsupportedFormat", "DecodeFailure",
                        "UserCancellation", "SerializationFailure"}
              => result = "False"
        /\ result = "True" <=>
              (save_calls = 1 /\ outcome = "Success" /\ output_path \in files)

\* C10: in scriptV2.py, once the guard's prompt is answered, the conversion
\* is cancelled exactly when the stripped response is 3; reduce_colors is
\* called (before any pixel is extracted, and its result replaces the image)
\* exactly when the stripped response is 1; on any other response the image
\* stays the one load_image returned, extraction comes next, and a
\* conversion that returns has called the save.
C10_GuardChoices ==
    (variant = "scriptV2" /\ prompted = 1) =>
        /\ outcome = "UserCancellation" <=> strip(typed) = <<"3">>
        /\ (pc = "reduce" \/ reduce_calls = 1) <=> strip(typed) = <<"1">>
        /\ pc = "reduce" => visits = <<>>
        /\ (reduce_calls = 1 /\ result # "raised") =>
              image \in reduce_colors(load_image(file))
        /\ strip(typed) \notin {<<"1">>, <<"3">>} =>
              /\ image = load_image(file)
              /\ reduce_calls = 0
              /\ pc \in {"extract", "create", "save", "done"}
              /\ (pc = "done" /\ result # "raised") => save_calls = 1

\* C10 witness: the caller answered 1, the image was quantized to other
\* pixels, extracted and saved
C10_Witness ==
    /\ variant = "scriptV2"
    /\ strip(typed) = <<"1">>
    /\ typed # <<"1">>
    /\ reduce_calls = 1
    /\ image # load_image(file)
    /\ visits # <<>>
    /\ result = "True"

====
